---- MODULE Spec2Model ----
(***************************************************************************)
(* Event finalisation and publication pipeline of craigdavid-cvm:          *)
(* NIP-13 proof-of-work mining (src/src/utils/pow.util.ts) and the         *)
(* summary / weekly-rap / roast publishing operations                      *)
(* (src/src/utils/summarise.util.ts, src/src/utils/pow.util.ts).           *)
(***************************************************************************)
EXTENDS Integers, Sequences, FiniteSets, TLC

(***************************************************************************)
(* Bounds of the model.                                                    *)
(***************************************************************************)
\* Number of hex digits of a digest (64 for SHA-256 in the program).
HashLen == 3
\* Largest nonce the miner can try before the wall clock passes the ceiling.
MaxNonce == 40
\* Number of relays of the pool.
NumRelays == 3
\* Milliseconds by which one step of the wall clock advances it.
TickMs == 70000
\* Largest digest length and difficulty of the pure-function specification.
MaxDigestLen == 2

(***************************************************************************)
(* Program constants.                                                      *)
(***************************************************************************)
\* pow.util.ts:80  if (Date.now() - startTime > 120000)
MINING_TIMEOUT_MS == 120000
\* summarise.util.ts:335  kind: 1
KIND_TEXT_NOTE == 1

VARIABLES
    pc,          \* position of the publishing invocation
    op,          \* "summary" | "rap" | "roast"
    powDifficulty,
    privateKeyHex,
    eventTemplate,
    signedEvent, \* result of the last signing
    firstSigned, \* history: result of the first signing
    mined,       \* mineEventPow's local `mined`
    nonce,       \* mineEventPow's local `nonce`
    elapsed,     \* Date.now() - startTime
    mineError,   \* error thrown by mineEventPow, or NoError
    sent,        \* history: records handed to relayPool.publish
    relayState,  \* per relay: "idle" | "pending" | "ok" | "fail"
    rejection,   \* << >>, or <<r>>: relay r's rejection settled Promise.all
    result,      \* value returned by the publishing operation, or NoResult
    steps,       \* history: the steps of the invocation, in order
    response,    \* what the tool handler returns to its caller, or NoResponse
    summary,     \* the generated text handed to the publishing operation
    summaryResult, \* what createAndPublish... returned, or NoSummaryResult
    hash, difficulty, matches,  \* pure-function specification
    calculated,  \* << >>, or <<calculateHashDifficulty(hash)>>
    minerEvent,  \* the event handed to a direct call of mineEventPow
    minerDifficulty,
    minerReturn, \* << >>, or <<what that call returned or threw>>
    MIN_AMOUNT_DEFAULT, \* process.env.MIN_AMOUNT_DEFAULT
    cashu,       \* the locals of a cashu_access call
    env,         \* process.env: SERVER_PRIVATE_KEY, CRAIG_DAVID, ROAST_PRIV
    startup,     \* position of the server's start-up code
    SERVER_PRIVATE_KEY_HEX,
    signingCalls, \* history: the keys tool invocations handed to a signing call
    POW_DIFFICULTY, \* the server's configured difficulty
    inv,         \* per concurrent tool invocation: the handler's locals
    minedOf,     \* per mineEventPow call: the event it returned
    running      \* << >>, or <<i>>: invocation i holds the JavaScript thread

vars == <<pc, op, powDifficulty, privateKeyHex, eventTemplate, signedEvent,
          firstSigned, mined, nonce, elapsed, mineError, sent, relayState,
          rejection, result, steps, response, summary, summaryResult, hash, difficulty,
          matches, calculated, minerEvent, minerDifficulty, minerReturn,
          MIN_AMOUNT_DEFAULT, cashu, env, startup, SERVER_PRIVATE_KEY_HEX, signingCalls,
          POW_DIFFICULTY, inv, minedOf, running>>

pubVars == <<pc, op, powDifficulty, privateKeyHex, eventTemplate, signedEvent,
             firstSigned, mined, nonce, elapsed, mineError, sent, relayState,
             rejection, result, steps, response, summary, summaryResult>>

digestVars == <<hash, difficulty, matches, calculated>>

minerVars == <<minerEvent, minerDifficulty, minerReturn>>

cashuVars == <<MIN_AMOUNT_DEFAULT, cashu>>

pureVars == <<digestVars, minerVars, cashuVars>>

\* everything outside a publishing invocation
configVars == <<env, startup, SERVER_PRIVATE_KEY_HEX, signingCalls>>

serverVars == <<POW_DIFFICULTY, inv, minedOf, running>>

restVars == <<pureVars, configVars, serverVars>>

(***************************************************************************)
(* Hex digests.  A digest is a sequence of hex digit characters.           *)
(***************************************************************************)
HexChars == <<"0", "1", "2", "3", "4", "5", "6", "7",
              "8", "9", "a", "b", "c", "d", "e", "f">>

HexDigitSet == {HexChars[i] : i \in 1..16}

\* a JavaScript number: an integer or NaN
NaN == [nan |-> TRUE, val |-> 0]
Num(v) == [nan |-> FALSE, val |-> v]

\* parseInt(ch, 16); ch = Undefined when the index is past the end.
Undefined == "undefined"

parseInt16(ch) ==
    IF ch \in HexDigitSet
    THEN Num((CHOOSE i \in 1..16 : HexChars[i] = ch) - 1)
    ELSE NaN

\* hash[i] with a 0-based index
CharAt(h, i) == IF i >= 0 /\ i < Len(h) THEN h[i + 1] ELSE Undefined

Pow2(n) == IF n <= 0 THEN 1 ELSE 2 ^ n

\* x >> k on a 32-bit integer; NaN converts to 0
ShiftRight(x, k) == IF x.nan THEN 0 ELSE x.val \div Pow2(k)

\* hash.startsWith('0'.repeat(n))
StartsWithZeros(h, n) ==
    /\ n <= Len(h)
    /\ \A i \in 1..n : h[i] = "0"

hashMatchesDifficultyLoose(h, d) ==
    LET requiredHexZeros == d \div 4
    IN  IF ~StartsWithZeros(h, requiredHexZeros) THEN FALSE
        ELSE IF d % 4 = 0 THEN TRUE
        ELSE LET nibble == parseInt16(CharAt(h, requiredHexZeros))
                 remainingBits == d % 4
             IN  ShiftRight(nibble, 3 - remainingBits) = 0

hashMatchesDifficulty(h, d) ==
    LET requiredHexZeros == d \div 4
    IN  IF ~StartsWithZeros(h, requiredHexZeros) THEN FALSE
        ELSE IF d % 4 = 0 THEN TRUE
        ELSE LET nibble == parseInt16(CharAt(h, requiredHexZeros))
                 remainingBits == d % 4
             IN  ShiftRight(nibble, 4 - remainingBits) = 0

\* the inner loop: the zero bits of a digit above its highest one bit
DigitLeadingZeros(digit) ==
    Cardinality({bit \in 0..3 : \A b \in bit..3 : ShiftRight(digit, b) % 2 = 0})

RECURSIVE CountFromNoBreak(_, _)
CountFromNoBreak(h, i) ==
    IF i > Len(h) THEN 0
    ELSE LET digit == parseInt16(h[i])
         IN  IF ~digit.nan /\ digit.val = 0 THEN 4 + CountFromNoBreak(h, i + 1)
             ELSE DigitLeadingZeros(digit) + CountFromNoBreak(h, i + 1)

calculateHashDifficultyNoBreak(h) == CountFromNoBreak(h, 1)

\* the outer loop from digit i on: 4 per zero digit, then the zero bits of
\* the first digit that is not zero, then break
RECURSIVE CountFrom(_, _)
CountFrom(h, i) ==
    IF i > Len(h) THEN 0
    ELSE LET digit == parseInt16(h[i])
         IN  IF ~digit.nan /\ digit.val = 0 THEN 4 + CountFrom(h, i + 1)
             ELSE DigitLeadingZeros(digit)

calculateHashDifficulty(h) == CountFrom(h, 1)

\* The digest read as a big-endian bit string.
NibbleBits(v) == << (v \div 8) % 2, (v \div 4) % 2, (v \div 2) % 2, v % 2 >>

RECURSIVE BitString(_)
BitString(h) ==
    IF h = << >> THEN << >>
    ELSE NibbleBits(parseInt16(Head(h)).val) \o BitString(Tail(h))

LeadingZeroBits(h) ==
    LET bits == BitString(h)
    IN  CHOOSE k \in 0..Len(bits) :
            /\ \A i \in 1..k : bits[i] = 0
            /\ (k < Len(bits) => bits[k + 1] = 1)


(***************************************************************************)
(* Canonical encoding and hashing (nostr-tools getEventHash, used at       *)
(* pow.util.ts:55).  The serialisation is the array                        *)
(* [0, pubkey, created_at, kind, tags, content]; SHA-256 is modelled by a  *)
(* deterministic mixing function onto HashLen hex digits.                  *)
(***************************************************************************)
DecimalDigits == <<"0", "1", "2", "3", "4", "5", "6", "7", "8", "9">>

\* Number.prototype.toString() of a non-negative integer
RECURSIVE toString(_)
toString(n) ==
    IF n < 10 THEN DecimalDigits[n + 1]
    ELSE toString(n \div 10) \o DecimalDigits[(n % 10) + 1]

KnownStrings ==
    <<"client", "Craig David", "Roast Bot", "t", "p", "date", "nonce",
      "daily-summary", "weekly-song", "humor", "craigdavid", "roast", "comedy",
      "pk_craig", "pk_subject", "2025-09-13",
      "Daily Summary by Craig David", "#dailysummary #humor #craigdavid",
      "Weekly Rap by Craig David", "#weeklysong #humor #craigdavid #7days",
      "Roast Time!", "#roast #comedy #humor", "text one", "text two">>

MaxDecimal == IF MaxNonce > 4 * HashLen + 4 THEN MaxNonce + 1 ELSE 4 * HashLen + 5

\* A number standing for the bytes of a string in the digest computation.
StrCode(s) ==
    IF \E i \in DOMAIN KnownStrings : KnownStrings[i] = s
    THEN CHOOSE i \in DOMAIN KnownStrings : KnownStrings[i] = s
    ELSE 100 + (CHOOSE n \in 0..MaxDecimal : toString(n) = s)

Modulus == 16 ^ HashLen

\* the avalanche step of the digest
Scramble(y) ==
    CHOOSE r \in {(z + (z \div 16) * (z % 16)) % Modulus :
                      z \in {((y % Modulus) * 2053 + 977) % Modulus}} : TRUE

\* one tag: its length and its strings, by position (tags have up to 3 strings)
TagCode(tag) ==
    LET c(i) == IF i <= Len(tag) THEN StrCode(tag[i]) ELSE 0
    IN  Scramble(Len(tag) + 3 * c(1) + 5 * c(2) + 7 * c(3))

\* the tag array: every tag weighted by its position (up to 8 tags)
TagsCode(tags) ==
    LET t(i) == IF i <= Len(tags) THEN (2 * i + 1) * TagCode(tags[i]) ELSE 0
    IN  Len(tags) + t(1) + t(2) + t(3) + t(4) + t(5) + t(6) + t(7) + t(8)

\* the content: header, text, footer
ContentCode(content) ==
    LET c(i) == IF i <= Len(content) THEN StrCode(content[i]) ELSE 0
    IN  Len(content) + 3 * c(1) + 5 * c(2) + 7 * c(3)

serializeEventWithId(evt) ==
    <<IF "id" \in DOMAIN evt /\ evt.id # << >> THEN parseInt16(evt.id[Len(evt.id)]).val
      ELSE 0, evt.pubkey, evt.created_at, evt.kind, evt.tags, evt.content>>

\* serializeEvent: JSON.stringify([0, pubkey, created_at, kind, tags, content])
serializeEvent(evt) ==
    <<0, evt.pubkey, evt.created_at, evt.kind, evt.tags, evt.content>>

RECURSIVE toHex(_, _)
toHex(n, len) ==
    IF len = 0 THEN << >>
    ELSE Append(toHex(n \div 16, len - 1), HexChars[(n % 16) + 1])

\* the digest of a serialisation
Digest(ser) ==
    Scramble(Scramble(ser[1] + 3 * StrCode(ser[2]) + 5 * (ser[3] % Modulus) + 7 * ser[4])
             + 11 * (TagsCode(ser[5]) % Modulus) + 13 * ContentCode(ser[6]))

sha256(ser) == CHOOSE h \in {toHex(Digest(bytes), HashLen) : bytes \in {ser}} : TRUE

getEventHash(evt) == sha256(serializeEvent(evt))

(***************************************************************************)
(* Keys and signatures (nostr-tools finalizeEvent / PrivateKeySigner).     *)
(***************************************************************************)
ValidKey == "sk_craig"
MalformedKey == "not-a-key"
PrivateKeys == {ValidKey, MalformedKey}

getPublicKey(sk) == IF sk = ValidKey THEN "pk_craig" ELSE "pk_none"

\* schnorr signature of an identifier under a secret key
Sign(id, sk) == [signer |-> sk, over |-> id]

NoSig == [signer |-> "", over |-> << >>]

\* verifyEvent: the id is the hash of the fields and the signature is over it
SigValid(evt) ==
    /\ evt.id = getEventHash(evt)
    /\ evt.sig.over = evt.id
    /\ getPublicKey(evt.sig.signer) = evt.pubkey

finalizeEvent(t, sk) ==
    LET e == [pubkey |-> getPublicKey(sk), created_at |-> t.created_at,
              kind |-> t.kind, tags |-> t.tags, content |-> t.content]
        id == getEventHash(e)
    IN  [id |-> id, pubkey |-> e.pubkey, created_at |-> e.created_at,
         kind |-> e.kind, tags |-> e.tags, content |-> e.content,
         sig |-> Sign(id, sk)]

NoEvent == [id |-> << >>, pubkey |-> "", created_at |-> 0, kind |-> 0,
            tags |-> << >>, content |-> << >>, sig |-> NoSig]

NoTemplate == [kind |-> 0, created_at |-> 0, tags |-> << >>, content |-> << >>,
               pubkey |-> ""]


(***************************************************************************)
(* Inputs of a publishing invocation.                                      *)
(***************************************************************************)
Ops == {"summary", "rap", "roast"}

\* a difficulty no digest of HashLen digits meets
UnreachableDifficulty == 4 * HashLen + 4

Difficulties == {0, 1, 4, 5, 8, 10, 4 * HashLen, UnreachableDifficulty}

Texts == {"text one", "text two"}

\* Math.floor(Date.now() / 1000) at draft creation
Timestamps == {1700000000, 1700000001}

\* what the regular expressions extract from dayInput (summarise.util.ts:277-314)
DayInputs == {[p |-> FALSE, date |-> FALSE], [p |-> TRUE, date |-> TRUE]}

Relays == 1..NumRelays

NoError == [msg |-> "undefined", relays |-> {}]
NoResult == [success |-> FALSE, eventId |-> << >>, error |-> NoError, returned |-> FALSE]

\* pow.util.ts:81
MiningTimeoutError == [msg |-> "PoW mining timed out after 2 minutes", relays |-> {}]
SignerError == [msg |-> "invalid private key", relays |-> {}]
\* the rejection of relay r
RelayError(r) == [msg |-> "relay rejected", relays |-> {r}]

\* createAndPublish... has not returned
NoSummaryResult == [summary |-> "", nostrEventId |-> << >>, published |-> FALSE,
                    error |-> NoError, returned |-> FALSE]

\* summarise.util.ts:237
GenerationError == [msg |-> "No content received from OpenRouter API", relays |-> {}]

\* the handler has not answered
NoResponse == [kind |-> "none", summary |-> "", eventId |-> << >>, caveat |-> NoError]

\* summarise.util.ts:317-331, 500-505; pow.util.ts:1359-1365
BuildTags(o, dayInput) ==
    IF o = "summary"
    THEN <<<<"client", "Craig David">>, <<"t", "daily-summary">>, <<"t", "humor">>>>
         \o (IF dayInput.p THEN <<<<"p", "pk_subject">>>> ELSE << >>)
         \o (IF dayInput.date THEN <<<<"date", "2025-09-13">>>> ELSE << >>)
    ELSE IF o = "rap"
    THEN <<<<"client", "Craig David">>, <<"t", "weekly-song">>, <<"t", "humor">>,
           <<"t", "craigdavid">>>>
    ELSE <<<<"client", "Roast Bot">>, <<"p", "pk_subject">>, <<"t", "roast">>,
           <<"t", "comedy">>, <<"t", "humor">>>>

\* the template literal of the content: header, text, footer
BuildContent(o, text) ==
    IF o = "summary"
    THEN <<"Daily Summary by Craig David", text, "#dailysummary #humor #craigdavid">>
    ELSE IF o = "rap"
    THEN <<"Weekly Rap by Craig David", text, "#weeklysong #humor #craigdavid #7days">>
    ELSE <<"Roast Time!", text, "#roast #comedy #humor">>

(***************************************************************************)
(* Initial state: no invocation yet.                                       *)
(***************************************************************************)
PubInit ==
    /\ pc = "idle"
    /\ op = "summary"
    /\ powDifficulty = 0
    /\ privateKeyHex = ValidKey
    /\ eventTemplate = NoTemplate
    /\ signedEvent = NoEvent
    /\ firstSigned = NoEvent
    /\ mined = NoEvent
    /\ nonce = 0
    /\ elapsed = 0
    /\ mineError = NoError
    /\ sent = << >>
    /\ relayState = [r \in Relays |-> "idle"]
    /\ rejection = << >>
    /\ result = NoResult
    /\ steps = << >>
    /\ response = NoResponse
    /\ summary = ""
    /\ summaryResult = NoSummaryResult

DigestIdle ==
    /\ hash = << >>
    /\ difficulty = 0
    /\ matches = << >>
    /\ calculated = << >>

\* no direct call of mineEventPow
MinerIdle ==
    /\ minerEvent = NoEvent
    /\ minerDifficulty = 0
    /\ minerReturn = << >>

NoCashuCall ==
    [pc |-> "idle", encodedToken |-> "", minAmount |-> [type |-> "undefined"],
     threshold |-> NaN, decision |-> "", amount |-> Num(0), reason |-> "",
     fetched |-> [kind |-> "none"]]

\* no cashu_access call
CashuIdle ==
    /\ MIN_AMOUNT_DEFAULT = << >>
    /\ cashu = NoCashuCall

PureIdle == DigestIdle /\ MinerIdle /\ CashuIdle

\* the server process has not started
ConfigIdle ==
    /\ env = [SERVER_PRIVATE_KEY |-> << >>, CRAIG_DAVID |-> << >>,
              ROAST_PRIV |-> << >>]
    /\ startup = "serverKey"
    /\ SERVER_PRIVATE_KEY_HEX = << >>
    /\ signingCalls = {}

Invocations == {1, 2}

\* the locals of a tool invocation that has not been called
IdleInvocation ==
    [pc |-> "idle", tool |-> "", text |-> "", canProgress |-> FALSE,
     notes |-> {}, beats |-> 0, signedEvent |-> NoEvent, threw |-> FALSE,
     published |-> NoEvent, rejection |-> << >>, result |-> NoResult,
     summaryResult |-> NoSummaryResult, response |-> NoResponse,
     timer |-> "none", log |-> << >>]

\* no tool invocation yet
ServerIdle ==
    /\ POW_DIFFICULTY = 0
    /\ inv = [i \in Invocations |-> IdleInvocation]
    /\ minedOf = [i \in Invocations |-> NoEvent]
    /\ running = << >>

Init == PubInit /\ PureIdle /\ ConfigIdle /\ ServerIdle

(***************************************************************************)
(* publishSummaryToNostr / publishWeeklyRapToNostr / publishRoastToNostr   *)
(***************************************************************************)
FailureWithoutError(err) ==
    [success |-> FALSE, eventId |-> << >>, error |-> NoError, returned |-> TRUE]

\* the outer catch: { success: false, eventId: '', error: message }
Failure(err) == [success |-> FALSE, eventId |-> << >>, error |-> err, returned |-> TRUE]

\* new PrivateKeySigner(privateKeyHex); getPublicKey; build tags and template
BuildDraft(o, d, key, text, ts, dayInput) ==
    /\ pc = "idle"
    /\ op' = o
    /\ powDifficulty' = d
    /\ privateKeyHex' = key
    /\ summary' = text
    /\ IF key = MalformedKey
       THEN /\ pc' = "done"
            /\ result' = Failure(SignerError)
            /\ UNCHANGED <<eventTemplate, steps>>
       ELSE /\ pc' = "draft"
            /\ eventTemplate' = [kind |-> KIND_TEXT_NOTE, created_at |-> ts,
                                 tags |-> BuildTags(o, dayInput),
                                 content |-> BuildContent(o, text),
                                 pubkey |-> getPublicKey(key)]
            /\ steps' = Append(steps, "draft")
            /\ UNCHANGED result
    /\ UNCHANGED <<signedEvent, firstSigned, mined, nonce, elapsed, mineError,
                   sent, relayState, rejection, response, summaryResult, restVars>>

PowRequestedAlways(d) == d >= 0

\* if (powDifficulty > 0)
PowRequested(d) == d > 0

\* finalizeEvent(eventTemplate, secretKey) / signer.signEvent(eventTemplate)
SignFirst ==
    /\ pc = "draft"
    /\ signedEvent' = finalizeEvent(eventTemplate, privateKeyHex)
    /\ firstSigned' = signedEvent'
    /\ steps' = Append(steps, "sign")
    /\ pc' = IF PowRequested(powDifficulty) THEN "mineStart" ELSE "ready"
    /\ UNCHANGED <<restVars, summaryResult, response, summary, op, powDifficulty, privateKeyHex, eventTemplate, mined, nonce,
                   elapsed, mineError, sent, relayState, rejection, result>>


(***************************************************************************)
(* mineEventPow (pow.util.ts:30-86)                                        *)
(***************************************************************************)
\* ['nonce', nonce.toString(), difficulty.toString()]
NonceTag(n, d) == <<"nonce", toString(n), toString(d)>>

MinedTagsAccumulate(prev, serialized, n, d) == Append(prev.tags, NonceTag(n, d))

\* mined.tags = [...(serialized.tags || []), [nonce tag]]
MinedTags(prev, serialized, n, d) == Append(serialized.tags, NonceTag(n, d))

MineStepStaleId(prev, serialized, n, d) ==
    [prev EXCEPT !.tags = MinedTags(prev, serialized, n, d)]

\* one pass of the loop body up to the difficulty check: tags, then id
MineStep(prev, serialized, n, d) ==
    LET withTags == [prev EXCEPT !.tags = MinedTags(prev, serialized, n, d)]
    IN  [withTags EXCEPT !.id = getEventHash(withTags)]

InputAfterIterationAliased(serialized, m) == m

\* let mined = { ...serialized }; mined.tags = [...]; mined.id = ...: the
\* iteration writes the fields of the copy, the input event keeps its own
InputAfterIteration(serialized, m) == serialized

TimedOutNever(ms) == FALSE

CatchesMiningErrorAll(o) == TRUE

\* summary and rap wrap mineEventPow in try/catch and go on to publish
\* (summarise.util.ts:351-368, 525-541); roast has no inner catch, the error
\* lands in the outer one (pow.util.ts:1384-1391, 1410-1416)
CatchesMiningError(o) == o # "roast"

\* Date.now() - startTime > 120000
TimedOut(ms) == ms > MINING_TIMEOUT_MS

MineStartAtOne ==
    /\ pc = "mineStart"
    /\ nonce' = 1
    /\ elapsed' = 0
    /\ mined' = signedEvent
    /\ pc' = "mining"
    /\ UNCHANGED <<restVars, summaryResult, response, summary, op, powDifficulty, privateKeyHex,
                   eventTemplate, signedEvent, firstSigned, mineError, sent,
                   relayState, rejection, result, steps>>

\* const startTime = Date.now(); let nonce = 0; let mined = { ...serialized }
MineStart ==
    /\ pc = "mineStart"
    /\ nonce' = 0
    /\ elapsed' = 0
    /\ mined' = signedEvent
    /\ pc' = "mining"
    /\ UNCHANGED <<restVars, summaryResult, response, summary, op, powDifficulty, privateKeyHex, eventTemplate, signedEvent,
                   firstSigned, mineError, sent, relayState, rejection, result, steps>>

\* the wall clock advances while the loop runs
Tick ==
    /\ pc = "mining"
    /\ elapsed <= MINING_TIMEOUT_MS
    /\ elapsed' = elapsed + TickMs
    /\ UNCHANGED <<restVars, summaryResult, response, summary, pc, op, powDifficulty, privateKeyHex, eventTemplate, signedEvent,
                   firstSigned, mined, nonce, mineError, sent, relayState,
                   rejection, result, steps>>

\* one iteration of while (true): the hash meets the difficulty and the
\* function returns `mined` (to the re-signing of summary and rap, to the
\* publish of roast)
MineFound ==
    /\ pc = "mining"
    /\ \E m \in {MineStep(mined, signedEvent, nonce, powDifficulty)} :
           /\ hashMatchesDifficulty(m.id, powDifficulty)
           /\ mined' = m
           /\ signedEvent' = InputAfterIteration(signedEvent, m)
    /\ elapsed' = 0
    /\ steps' = Append(steps, "mine")
    /\ pc' = IF op = "roast" THEN "ready" ELSE "resign"
    /\ UNCHANGED <<restVars, summaryResult, response, summary, op, powDifficulty, privateKeyHex, eventTemplate,
                   firstSigned, nonce, mineError, sent, relayState,
                   rejection, result>>

\* one iteration that misses: nonce++, then the timeout check
MineMiss ==
    /\ pc = "mining"
    /\ nonce < MaxNonce \/ TimedOut(elapsed)
    /\ \E m \in {MineStep(mined, signedEvent, nonce, powDifficulty)} :
           /\ ~hashMatchesDifficulty(m.id, powDifficulty)
           /\ signedEvent' = InputAfterIteration(signedEvent, m)
           /\ IF TimedOut(elapsed)
              THEN \* throw: the locals of mineEventPow are gone
                   /\ mineError' = MiningTimeoutError
                   /\ mined' = NoEvent
                   /\ nonce' = 0
                   /\ elapsed' = 0
                   /\ steps' = Append(steps, "minefail")
                   /\ IF CatchesMiningError(op)
                      THEN pc' = "ready" /\ UNCHANGED result
                      ELSE pc' = "done" /\ result' = Failure(MiningTimeoutError)
              ELSE /\ mined' = m
                   /\ nonce' = nonce + 1
                   /\ UNCHANGED <<pc, elapsed, mineError, steps, result>>
    /\ UNCHANGED <<restVars, summaryResult, response, summary, op, powDifficulty, privateKeyHex, eventTemplate,
                   firstSigned, sent, relayState, rejection>>

ReSignFreshTimestamp ==
    /\ pc = "resign"
    /\ LET minedEventTemplate ==
               [kind |-> mined.kind, created_at |-> mined.created_at + 1,
                tags |-> mined.tags, content |-> mined.content,
                pubkey |-> mined.pubkey]
       IN  signedEvent' = finalizeEvent(minedEventTemplate, privateKeyHex)
    /\ steps' = Append(steps, "sign")
    /\ pc' = "ready"
    /\ UNCHANGED <<restVars, summaryResult, response, summary, op, powDifficulty, privateKeyHex,
                   eventTemplate, firstSigned, mined, nonce, elapsed, mineError,
                   sent, relayState, rejection, result>>

\* signedEvent = finalizeEvent(minedEventTemplate, secretKey)
ReSign ==
    /\ pc = "resign"
    /\ LET minedEventTemplate ==
               [kind |-> mined.kind, created_at |-> mined.created_at,
                tags |-> mined.tags, content |-> mined.content,
                pubkey |-> mined.pubkey]
       IN  signedEvent' = finalizeEvent(minedEventTemplate, privateKeyHex)
    /\ steps' = Append(steps, "sign")
    /\ pc' = "ready"
    /\ UNCHANGED <<restVars, summaryResult, response, summary, op, powDifficulty, privateKeyHex, eventTemplate, firstSigned,
                   mined, nonce, elapsed, mineError, sent, relayState, rejection,
                   result>>

(***************************************************************************)
(* relayPool.publish and the result of the operation                       *)
(***************************************************************************)
\* roast publishes finalEvent (the mined event when PoW was requested),
\* summary and rap publish signedEvent
FinalEvent ==
    IF op = "roast" /\ PowRequested(powDifficulty) THEN mined ELSE signedEvent

\* relayPool.publish(event): one attempt per relay, joined by Promise.all
Publish ==
    /\ pc = "ready"
    /\ sent' = Append(sent, FinalEvent)
    /\ relayState' = [r \in Relays |-> "pending"]
    /\ steps' = Append(steps, "publish")
    /\ pc' = "publishing"
    /\ UNCHANGED <<restVars, summaryResult, response, summary, op, powDifficulty, privateKeyHex, eventTemplate, signedEvent,
                   firstSigned, mined, nonce, elapsed, mineError, rejection, result>>

\* a relay accepts or rejects (or is unreachable)
RelaySettle(r, accepted) ==
    /\ relayState[r] = "pending"
    /\ relayState' = [relayState EXCEPT ![r] = IF accepted THEN "ok" ELSE "fail"]
    /\ rejection' = IF ~accepted /\ rejection = << >> THEN <<r>> ELSE rejection
    /\ UNCHANGED <<restVars, summaryResult, response, summary, pc, op, powDifficulty, privateKeyHex, eventTemplate, signedEvent,
                   firstSigned, mined, nonce, elapsed, mineError, sent, result, steps>>

\* Promise.all: rejected by the first rejection, fulfilled when all are
PublishSettled ==
    \/ rejection # << >>
    \/ \A r \in Relays : relayState[r] = "ok"

PublishResultFirstId(o, ev, failed) ==
    IF failed = << >>
    THEN [success |-> TRUE, eventId |-> firstSigned.id, error |-> NoError,
          returned |-> TRUE]
    ELSE IF o = "roast"
    THEN Failure(RelayError(failed[1]))
    ELSE [success |-> TRUE, eventId |-> firstSigned.id,
          error |-> [msg |-> "Some relays failed: relay rejected",
                     relays |-> {failed[1]}],
          returned |-> TRUE]

\* summarise.util.ts:381-398, 551-563; pow.util.ts:1405-1416
PublishResult(o, ev, failed) ==
    IF failed = << >>
    THEN [success |-> TRUE, eventId |-> ev.id, error |-> NoError, returned |-> TRUE]
    ELSE IF o = "roast"
    THEN Failure(RelayError(failed[1]))
    ELSE [success |-> TRUE, eventId |-> ev.id,
          error |-> [msg |-> "Some relays failed: relay rejected",
                     relays |-> {failed[1]}],
          returned |-> TRUE]

AfterPublishRetry(failed) == IF failed # << >> THEN "ready" ELSE "done"

\* both the success path and the catch of a failed publish return
AfterPublish(failed) == "done"

PublishReturn ==
    /\ pc = "publishing"
    /\ PublishSettled
    /\ result' = PublishResult(op, FinalEvent, rejection)
    /\ pc' = AfterPublish(rejection)
    /\ UNCHANGED <<restVars, summaryResult, response, summary, op, powDifficulty, privateKeyHex, eventTemplate, signedEvent,
                   firstSigned, mined, nonce, elapsed, mineError, sent, relayState,
                   rejection, steps>>

(***************************************************************************)
(* createAndPublishSummary / WeeklyRap / Roast and the tool handler        *)
(* (pow.util.ts:699-845, part_002:563-760)                                 *)
(***************************************************************************)
\* { summary, nostrEventId, published, error } built from the publish result
createAndPublish(text, res) ==
    [summary |-> text, nostrEventId |-> res.eventId, published |-> res.success,
     error |-> res.error, returned |-> TRUE]

\* the text the handler returns: the published branch shows the summary and
\* the event id, the other branch the summary and result.error
ToolResponse(res) ==
    IF res.published
    THEN [kind |-> "published", summary |-> res.summary,
          eventId |-> res.nostrEventId, caveat |-> NoError]
    ELSE [kind |-> "publishFailed", summary |-> res.summary,
          eventId |-> << >>, caveat |-> res.error]

GenerationFailedSilent(err) ==
    [summary |-> "", nostrEventId |-> << >>, published |-> FALSE, error |-> NoError,
     returned |-> TRUE]

\* the catch of createAndPublish...: { summary: '', nostrEventId: '',
\* published: false, error: error.message }
GenerationFailed(err) ==
    [summary |-> "", nostrEventId |-> << >>, published |-> FALSE, error |-> err,
     returned |-> TRUE]

\* the text generation rejects: createAndPublish... returns from its catch
\* and the handler answers from the branch of a result that is not published
GenerationFails(o) ==
    /\ pc = "idle"
    /\ op' = o
    /\ summaryResult' = GenerationFailed(GenerationError)
    /\ response' = ToolResponse(summaryResult')
    /\ steps' = Append(steps, "generatefail")
    /\ pc' = "responded"
    /\ UNCHANGED <<restVars, summary, powDifficulty, privateKeyHex, eventTemplate,
                   signedEvent, firstSigned, mined, nonce, elapsed, mineError,
                   sent, relayState, rejection, result>>

\* the publishing operation has returned; the handler builds its answer
ToolReturn ==
    /\ pc = "done"
    /\ summaryResult' = createAndPublish(summary, result)
    /\ response' = ToolResponse(summaryResult')
    /\ pc' = "responded"
    /\ UNCHANGED <<restVars, summary, op, powDifficulty, privateKeyHex, eventTemplate,
                   signedEvent, firstSigned, mined, nonce, elapsed, mineError,
                   sent, relayState, rejection, result, steps>>

Next ==
    \/ \E o \in Ops, d \in Difficulties, key \in PrivateKeys, text \in Texts,
          ts \in Timestamps, dayInput \in DayInputs :
          BuildDraft(o, d, key, text, ts, dayInput)
    \/ SignFirst
    \/ MineStart
    \/ Tick
    \/ MineFound
    \/ MineMiss
    \/ ReSign
    \/ Publish
    \/ \E r \in Relays, accepted \in BOOLEAN : RelaySettle(r, accepted)
    \/ PublishReturn
    \/ ToolReturn
    \/ \E o \in Ops : GenerationFails(o)

Spec == Init /\ [][Next]_vars

\* the wall clock keeps advancing and the loop keeps running
LiveSpec == Spec /\ WF_vars(Tick) /\ WF_vars(MineFound) /\ WF_vars(MineMiss)


(***************************************************************************)
(* The difficulty check as a pure function: every digest of up to          *)
(* MaxDigestLen hex digits against every difficulty up to past its length. *)
(***************************************************************************)
Digests == UNION {[1..n -> HexDigitSet] : n \in 0..MaxDigestLen}

DifficultyInit ==
    /\ PubInit
    /\ hash \in Digests
    /\ difficulty \in 0..(4 * MaxDigestLen + 5)
    /\ matches = << >>
    /\ calculated = << >>
    /\ MinerIdle
    /\ CashuIdle
    /\ ConfigIdle
    /\ ServerIdle

\* a call hashMatchesDifficulty(hash, difficulty)
CheckDifficulty ==
    /\ matches = << >>
    /\ matches' = <<hashMatchesDifficulty(hash, difficulty)>>
    /\ UNCHANGED <<pubVars, configVars, serverVars, minerVars, cashuVars, hash,
                   difficulty, calculated>>

\* a call calculateHashDifficulty(hash)
CalculateDifficulty ==
    /\ calculated = << >>
    /\ calculated' = <<calculateHashDifficulty(hash)>>
    /\ UNCHANGED <<pubVars, configVars, serverVars, minerVars, cashuVars, hash,
                   difficulty, matches>>

DifficultyNext == CheckDifficulty \/ CalculateDifficulty

DifficultySpec == DifficultyInit /\ [][DifficultyNext]_vars


(***************************************************************************)
(* Key configuration at start-up (part_002:43-69, 124-170) and the keys    *)
(* the tool handlers hand to the publishing operations.  A key string is a *)
(* sequence of characters: "a" a hex digit, "z" a letter that is not one,  *)
(* " " white space.                                                        *)
(***************************************************************************)
\* /^[0-9a-fA-F]{64}$/
KEY_HEX_CHARS == 64

HexString(n) == [i \in 1..n |-> "a"]

\* the values an environment variable is given; << >> is unset or empty
EnvValues ==
    {<< >>, HexString(KEY_HEX_CHARS), HexString(KEY_HEX_CHARS) \o <<" ">>,
     <<" ">> \o HexString(KEY_HEX_CHARS), HexString(KEY_HEX_CHARS - 1),
     HexString(KEY_HEX_CHARS - 1) \o <<"z">>}

\* generateSecretKey() as hex
GeneratedKey == [i \in 1..KEY_HEX_CHARS |-> "b"]

\* String.prototype.trim
trim(s) ==
    LET kept == {i \in DOMAIN s : s[i] # " "}
    IN  IF kept = {} THEN << >>
        ELSE SubSeq(s, CHOOSE i \in kept : \A j \in kept : i <= j,
                       CHOOSE i \in kept : \A j \in kept : j <= i)

\* /^[0-9a-fA-F]{64}$/.test(s)
TestKeyRegex(s) ==
    /\ Len(s) = KEY_HEX_CHARS
    /\ \A i \in DOMAIN s : s[i] \in HexDigitSet

\* Buffer.from(s, 'hex'): decoding stops at the first pair that is not hex
BufferFromHex(s) ==
    LET pairs == {k \in 0..(Len(s) \div 2) :
                     \A i \in 1..(2 * k) : s[i] \in HexDigitSet}
    IN  SubSeq(s, 1, 2 * (CHOOSE k \in pairs : \A j \in pairs : j <= k))

\* getPublicKey(secretKey) throws unless the key has 32 bytes
SecretKeyAccepted(bytes) == Len(bytes) = KEY_HEX_CHARS

CRAIG_DAVID_KEY == env.CRAIG_DAVID
ROAST_PRIV == env.ROAST_PRIV

ConfigInit ==
    /\ PubInit
    /\ PureIdle
    /\ env \in [SERVER_PRIVATE_KEY : EnvValues, CRAIG_DAVID : EnvValues,
                ROAST_PRIV : EnvValues]
    /\ startup = "serverKey"
    /\ SERVER_PRIVATE_KEY_HEX = << >>
    /\ signingCalls = {}
    /\ ServerIdle

\* part_002:43-69
ValidateServerKey ==
    /\ startup = "serverKey"
    /\ LET envKey == env.SERVER_PRIVATE_KEY
           cleanKey == trim(envKey)
       IN  IF envKey # << >> /\ Len(trim(envKey)) > 0
           THEN IF ~TestKeyRegex(cleanKey)
                THEN startup' = "exited" /\ UNCHANGED SERVER_PRIVATE_KEY_HEX
                ELSE startup' = "craigDavid" /\ SERVER_PRIVATE_KEY_HEX' = cleanKey
           ELSE startup' = "craigDavid" /\ SERVER_PRIVATE_KEY_HEX' = GeneratedKey
    /\ UNCHANGED <<pubVars, pureVars, serverVars, env, signingCalls>>

\* the check of CRAIG_DAVID and of ROAST_PRIV: the trimmed value is tested,
\* the value itself is decoded for the log line and kept
PersonaKeyStarts(key) ==
    \/ key = << >>
    \/ /\ TestKeyRegex(trim(key))
       /\ SecretKeyAccepted(BufferFromHex(key))

\* part_002:124-143
ValidateCraigDavid ==
    /\ startup = "craigDavid"
    /\ startup' = IF PersonaKeyStarts(CRAIG_DAVID_KEY) THEN "roastPriv" ELSE "exited"
    /\ UNCHANGED <<pubVars, pureVars, serverVars, env, SERVER_PRIVATE_KEY_HEX, signingCalls>>

\* part_002:151-170
ValidateRoastPriv ==
    /\ startup = "roastPriv"
    /\ startup' = IF PersonaKeyStarts(ROAST_PRIV) THEN "running" ELSE "exited"
    /\ UNCHANGED <<pubVars, pureVars, serverVars, env, SERVER_PRIVATE_KEY_HEX, signingCalls>>

Tools == {"summarise", "weekly_summary", "roastNpub"}

\* CRAIG_DAVID_KEY || SERVER_PRIVATE_KEY_HEX, ROAST_PRIV || SERVER_PRIVATE_KEY_HEX
PublishingKey(tool) ==
    LET persona == IF tool = "roastNpub" THEN ROAST_PRIV ELSE CRAIG_DAVID_KEY
    IN  IF persona # << >> THEN persona ELSE SERVER_PRIVATE_KEY_HEX

\* a tool invocation reaches new PrivateKeySigner(privateKeyHex)
ToolSigningCall(tool) ==
    /\ startup = "running"
    /\ signingCalls' = signingCalls \cup {[tool |-> tool, key |-> PublishingKey(tool)]}
    /\ UNCHANGED <<pubVars, pureVars, serverVars, env, startup, SERVER_PRIVATE_KEY_HEX>>

ConfigNext ==
    \/ ValidateServerKey
    \/ ValidateCraigDavid
    \/ ValidateRoastPriv
    \/ \E tool \in Tools : ToolSigningCall(tool)

ConfigSpec == ConfigInit /\ [][ConfigNext]_vars


(***************************************************************************)
(* Two concurrent tool invocations on the server's single JavaScript       *)
(* thread (part_002:380-760).  An invocation runs from one await to the    *)
(* next without interruption; mineEventPow has no await in its loop        *)
(* (pow.util.ts:47-83), so it holds the thread from entry to exit.         *)
(***************************************************************************)
\* largest number of heartbeat notifications of one invocation
MaxBeats == 1

\* the values of POW_DIFFICULTY the server is run with
ServerDifficulties == {0, 4}

\* the tools of the concurrent invocations; the weekly_summary handler and
\* operation have the shape of summarise's
ServerTools == Tools \ {"weekly_summary"}

\* the texts the generation returns to the concurrent invocations
ServerTexts == {CHOOSE t \in Texts : TRUE}

ServerKey == ValidKey
ServerTimestamp == CHOOSE t \in Timestamps : \A u \in Timestamps : t <= u
ServerDayInput == [p |-> TRUE, date |-> TRUE]

ToolOp(tool) ==
    IF tool = "summarise" THEN "summary"
    ELSE IF tool = "weekly_summary" THEN "rap"
    ELSE "roast"

\* the summarise and weekly_summary handlers report progress, roastNpub does not
ReportsProgress(tool) == tool # "roastNpub"

sendProgressUnguarded(can, delivered) ==
    IF ~can THEN "skipped" ELSE IF delivered THEN "sent" ELSE "threw"

\* sendProgress: returns at once without a progress token, swallows the
\* error of a failed sendNotification
sendProgress(can, delivered) ==
    IF ~can THEN "skipped" ELSE IF delivered THEN "sent" ELSE "swallowed"

\* the params of a progress notification; total is << >> when not a number
Notification(progress, total) == [progress |-> progress, total |-> total]

\* the total of the step notifications: 3 for summarise, 4 for weekly_summary
TotalSteps(tool) == IF tool = "weekly_summary" THEN 4 ELSE 3

\* the notifications that reached sendNotification and were delivered
Delivered(log, can, delivered, notifications) ==
    IF sendProgress(can, delivered) = "sent" THEN log \o notifications ELSE log

\* clearInterval(id)
clearInterval(timer) == IF timer = "running" THEN "cleared" ELSE timer

\* startHeartbeat: no timer without a progress token
startHeartbeat(can) == IF can THEN "running" ELSE "none"

stopBeatKeepsTimer(timer) == timer

\* the function startHeartbeat returns: () => clearInterval(id)
stopBeat(timer) == clearInterval(timer)

\* the failed sends among a set of sendProgress outcomes
FailedSends(outcomes) == outcomes \cap {"swallowed", "threw"}

\* the handler's catch: "Sorry, I couldn't create a summary right now"
ErrorResponse(err) ==
    [kind |-> "error", summary |-> "", eventId |-> << >>, caveat |-> err]

ProgressError == [msg |-> "progress notification failed", relays |-> {}]

\* the event template an invocation builds from its inputs
TemplateOf(tool, text) ==
    [kind |-> KIND_TEXT_NOTE, created_at |-> ServerTimestamp,
     tags |-> BuildTags(ToolOp(tool), ServerDayInput),
     content |-> BuildContent(ToolOp(tool), text),
     pubkey |-> getPublicKey(ServerKey)]

\* the nonces up to MaxNonce whose digest meets the difficulty
Hits(serialized, d) ==
    {n \in 0..MaxNonce :
        hashMatchesDifficulty(MineStep(serialized, serialized, n, d).id, d)}

\* mineEventPow as a function of its input: the event of the first nonce
\* that meets the difficulty, or the timeout error when the clock passes
\* two minutes at an earlier miss
mineEventPow(serialized, d, timesOut) ==
    CHOOSE r \in {IF h # {} /\ (~timesOut \/ 0 \in h)
                  THEN [threw |-> FALSE,
                        mined |-> MineStep(serialized, serialized,
                                     CHOOSE n \in h : \A k \in h : n <= k, d)]
                  ELSE [threw |-> TRUE, mined |-> NoEvent] :
                      h \in {Hits(serialized, d)}} : TRUE

MinedSlotShared(i) == CHOOSE j \in Invocations : \A k \in Invocations : j <= k

\* `mined` is a local of each mineEventPow call
MinedSlot(i) == i

\* the handler is entered: sendProgress(0), sendProgress(1), startHeartbeat,
\* then the text generation is awaited
ToolCall(i, tool, text, token, delivered) ==
    /\ running = << >>
    /\ inv[i].pc = "idle"
    /\ LET note == IF ReportsProgress(tool)
                   THEN FailedSends({sendProgress(token, delivered)}) ELSE {}
           called == [inv[i] EXCEPT !.tool = tool, !.text = text,
                                    !.canProgress = token, !.notes = note,
                                    !.log = IF ReportsProgress(tool)
                                            THEN Delivered(<< >>, token, delivered,
                                                   <<Notification(0, <<TotalSteps(tool)>>),
                                                     Notification(1, <<TotalSteps(tool)>>)>>)
                                            ELSE << >>]
       IN  inv' = [inv EXCEPT ![i] =
                     IF "threw" \in note
                     THEN [called EXCEPT !.pc = "responded",
                                         !.response = ErrorResponse(ProgressError)]
                     ELSE [called EXCEPT !.pc = "generating",
                                         !.timer = IF ReportsProgress(tool)
                                                   THEN startHeartbeat(token)
                                                   ELSE "none"]]
    /\ UNCHANGED <<pubVars, pureVars, configVars, POW_DIFFICULTY, minedOf, running>>

\* the text is there: signer, tags, template, first signing; then either
\* mineEventPow is entered or relayPool.publish is called
Generated(i) ==
    /\ running = << >>
    /\ inv[i].pc = "generating"
    /\ LET signed == finalizeEvent(TemplateOf(inv[i].tool, inv[i].text), ServerKey)
       IN  IF PowRequested(POW_DIFFICULTY)
           THEN /\ inv' = [inv EXCEPT ![i].signedEvent = signed, ![i].pc = "mining"]
                /\ running' = <<i>>
           ELSE /\ inv' = [inv EXCEPT ![i].signedEvent = signed,
                                      ![i].published = signed,
                                      ![i].pc = "publishing"]
                /\ UNCHANGED running
    /\ UNCHANGED <<pubVars, pureVars, configVars, POW_DIFFICULTY, minedOf>>

\* mineEventPow returns or throws and gives the thread back
MineExit(i, timesOut) ==
    /\ running = <<i>>
    /\ inv[i].pc = "mining"
    /\ \E r \in {mineEventPow(inv[i].signedEvent, POW_DIFFICULTY, timesOut)} :
          /\ r.threw = timesOut
          /\ minedOf' = [minedOf EXCEPT ![MinedSlot(i)] = r.mined]
          /\ inv' = [inv EXCEPT ![i] =
                IF r.threw /\ ~CatchesMiningError(ToolOp(inv[i].tool))
                THEN [@ EXCEPT !.threw = TRUE, !.pc = "done",
                               !.result = Failure(MiningTimeoutError)]
                ELSE [@ EXCEPT !.threw = r.threw, !.pc = "mined"]]
    /\ running' = << >>
    /\ UNCHANGED <<pubVars, pureVars, configVars, POW_DIFFICULTY>>

\* the continuation after await mineEventPow: re-sign (summary, rap) or take
\* the mined event (roast), or keep the first signing after a caught
\* timeout; then relayPool.publish is called
AfterMining(i) ==
    /\ running = << >>
    /\ inv[i].pc = "mined"
    /\ LET minedEvent == minedOf[MinedSlot(i)]
           minedEventTemplate ==
               [kind |-> minedEvent.kind, created_at |-> minedEvent.created_at,
                tags |-> minedEvent.tags, content |-> minedEvent.content,
                pubkey |-> minedEvent.pubkey]
           final == IF inv[i].threw THEN inv[i].signedEvent
                    ELSE IF ToolOp(inv[i].tool) = "roast" THEN minedEvent
                    ELSE finalizeEvent(minedEventTemplate, ServerKey)
       IN  inv' = [inv EXCEPT ![i].published = final, ![i].pc = "publishing",
                              ![i].signedEvent =
                                  IF ToolOp(inv[i].tool) = "roast" THEN @ ELSE final]
    /\ UNCHANGED <<pubVars, pureVars, configVars, POW_DIFFICULTY, minedOf, running>>

\* the answer of the handler once createAndPublish... has returned:
\* stopBeat, sendProgress(2), the response text, sendProgress(3), return
AnswerWith(i, sres, res, delivered) ==
    LET tool == inv[i].tool
        note == IF ReportsProgress(tool)
                THEN FailedSends({sendProgress(inv[i].canProgress, delivered)})
                ELSE {}
        notes == inv[i].notes \cup note
    IN  [inv[i] EXCEPT !.notes = notes, !.pc = "responded", !.result = res,
            !.summaryResult = sres,
            !.timer = stopBeat(@),
            !.log = IF ReportsProgress(tool)
                    THEN Delivered(@, inv[i].canProgress, delivered,
                           <<Notification(2, <<TotalSteps(tool)>>),
                             Notification(TotalSteps(tool), <<TotalSteps(tool)>>)>>)
                    ELSE @,
            !.response = IF "threw" \in notes THEN ErrorResponse(ProgressError)
                         ELSE ToolResponse(sres)]

\* the answer after the publishing operation returned res
Answer(i, res, delivered) ==
    AnswerWith(i, createAndPublish(inv[i].text, res), res, delivered)

\* the text generation rejects: createAndPublish... returns from its catch
\* and the handler answers
GenerationFailsIn(i, delivered) ==
    /\ running = << >>
    /\ inv[i].pc = "generating"
    /\ inv' = [inv EXCEPT ![i] =
                  AnswerWith(i, GenerationFailed(GenerationError), NoResult, delivered)]
    /\ UNCHANGED <<pubVars, pureVars, configVars, POW_DIFFICULTY, minedOf, running>>

\* the request's signal fires 'abort': the listener startHeartbeat added
\* clears the interval; the handler goes on
Abort(i) ==
    /\ running = << >>
    /\ inv[i].pc \in {"generating", "mined", "publishing", "done"}
    /\ inv[i].timer = "running"
    /\ inv' = [inv EXCEPT ![i].timer = clearInterval(@)]
    /\ UNCHANGED <<pubVars, pureVars, configVars, POW_DIFFICULTY, minedOf, running>>

\* the rejections of relayPool.publish: none, or that of one relay
ServerRejections == {<< >>, <<CHOOSE r \in Relays : TRUE>>}

\* relayPool.publish settles (fulfilled, or rejected by relay failed[1]),
\* the operation returns and the handler answers
PublishSettle(i, failed, delivered) ==
    /\ running = << >>
    /\ inv[i].pc = "publishing"
    /\ inv' = [inv EXCEPT ![i] =
                  [Answer(i, PublishResult(ToolOp(inv[i].tool), inv[i].published,
                                           failed), delivered)
                      EXCEPT !.rejection = failed]]
    /\ UNCHANGED <<pubVars, pureVars, configVars, POW_DIFFICULTY, minedOf, running>>

\* the roast operation has returned the mining error; the handler answers
Respond(i, delivered) ==
    /\ running = << >>
    /\ inv[i].pc = "done"
    /\ inv' = [inv EXCEPT ![i] = Answer(i, inv[i].result, delivered)]
    /\ UNCHANGED <<pubVars, pureVars, configVars, POW_DIFFICULTY, minedOf, running>>

\* the heartbeat is due between startHeartbeat and stopBeat
HeartbeatDue(i) ==
    /\ inv[i].timer = "running"
    /\ inv[i].beats < MaxBeats

\* the setInterval callback: sendProgress(0, undefined, "still working...")
Heartbeat(i, delivered) ==
    /\ running = << >>
    /\ HeartbeatDue(i)
    /\ inv' = [inv EXCEPT ![i].beats = @ + 1,
                          ![i].notes = @ \cup FailedSends({sendProgress(TRUE, delivered)}),
                          ![i].log = Delivered(@, inv[i].canProgress, delivered,
                                               <<Notification(0, << >>)>>)]
    /\ UNCHANGED <<pubVars, pureVars, configVars, POW_DIFFICULTY, minedOf, running>>

ServerInit ==
    /\ PubInit
    /\ PureIdle
    /\ ConfigIdle
    /\ POW_DIFFICULTY \in ServerDifficulties
    /\ inv = [i \in Invocations |-> IdleInvocation]
    /\ minedOf = [i \in Invocations |-> NoEvent]
    /\ running = << >>

ServerNext ==
    \/ \E i \in Invocations, tool \in ServerTools, text \in ServerTexts,
          token \in BOOLEAN, delivered \in BOOLEAN :
          ToolCall(i, tool, text, token, delivered)
    \/ \E i \in Invocations : Generated(i)
    \/ \E i \in Invocations, timesOut \in BOOLEAN : MineExit(i, timesOut)
    \/ \E i \in Invocations : AfterMining(i)
    \/ \E i \in Invocations, failed \in ServerRejections, delivered \in BOOLEAN :
          PublishSettle(i, failed, delivered)
    \/ \E i \in Invocations, delivered \in BOOLEAN : Respond(i, delivered)
    \/ \E i \in Invocations, delivered \in BOOLEAN : Heartbeat(i, delivered)
    \/ \E i \in Invocations, delivered \in BOOLEAN : GenerationFailsIn(i, delivered)
    \/ \E i \in Invocations : Abort(i)

ServerSpec == ServerInit /\ [][ServerNext]_vars

\* one tool call on its own, with every tool and text
SingleCall == {CHOOSE i \in Invocations : \A j \in Invocations : i <= j}

ToolCallNext ==
    \/ \E i \in SingleCall, tool \in Tools, text \in Texts,
          token \in BOOLEAN, delivered \in BOOLEAN :
          ToolCall(i, tool, text, token, delivered)
    \/ \E i \in SingleCall : Generated(i)
    \/ \E i \in SingleCall, timesOut \in BOOLEAN : MineExit(i, timesOut)
    \/ \E i \in SingleCall : AfterMining(i)
    \/ \E i \in SingleCall, failed \in ServerRejections, delivered \in BOOLEAN :
          PublishSettle(i, failed, delivered)
    \/ \E i \in SingleCall, delivered \in BOOLEAN : Respond(i, delivered)
    \/ \E i \in SingleCall, delivered \in BOOLEAN : Heartbeat(i, delivered)
    \/ \E i \in SingleCall, delivered \in BOOLEAN : GenerationFailsIn(i, delivered)
    \/ \E i \in SingleCall : Abort(i)

ToolCallSpec == ServerInit /\ [][ToolCallNext]_vars

(***************************************************************************)
(* mineEventPow called directly, on any signed event.                      *)
(***************************************************************************)
\* the nonce tags an input event may already carry
PriorNonceTags == {<< >>, <<NonceTag(0, 4)>>, <<NonceTag(7, 8)>>}

MinerDifficulties == {0, 1, 4, 5}

MinerEvents ==
    {finalizeEvent([TemplateOf(tool, text) EXCEPT !.tags = @ \o prior], ServerKey) :
        tool \in Tools, text \in Texts, prior \in PriorNonceTags}

MinerInit ==
    /\ PubInit
    /\ DigestIdle
    /\ CashuIdle
    /\ ConfigIdle
    /\ ServerIdle
    /\ minerEvent \in MinerEvents
    /\ minerDifficulty \in MinerDifficulties
    /\ minerReturn = << >>

\* await mineEventPow(minerEvent, minerDifficulty)
MinerCall(timesOut) ==
    /\ minerReturn = << >>
    /\ minerReturn' = <<mineEventPow(minerEvent, minerDifficulty, timesOut)>>
    /\ UNCHANGED <<pubVars, digestVars, cashuVars, configVars, serverVars,
                   minerEvent, minerDifficulty>>

MinerNext == \E timesOut \in BOOLEAN : MinerCall(timesOut)

MinerSpec == MinerInit /\ [][MinerNext]_vars

(***************************************************************************)
(* The cashu_access tool.                                                  *)
(***************************************************************************)
DecDigits == <<"0", "1", "2", "3", "4", "5", "6", "7", "8", "9">>

DecDigitSet == {DecDigits[i] : i \in DOMAIN DecDigits}

DigitVal(c) == (CHOOSE i \in DOMAIN DecDigits : DecDigits[i] = c) - 1

\* the length of the longest prefix of decimal digits
DigitPrefixLen(s) ==
    Cardinality({i \in DOMAIN s : \A j \in 1..i : s[j] \in DecDigitSet})

RECURSIVE DecValue(_, _)
DecValue(s, n) == IF n = 0 THEN 0 ELSE 10 * DecValue(s, n - 1) + DigitVal(s[n])

\* parseInt(s, 10) of a string of characters: an optional sign, the leading
\* digits, NaN when there is none
parseInt10(s) ==
    LET neg == s # << >> /\ s[1] = "-"
        body == IF s # << >> /\ s[1] \in {"-", "+"} THEN Tail(s) ELSE s
        k == DigitPrefixLen(body)
    IN  IF k = 0 THEN NaN
        ELSE Num((IF neg THEN -1 ELSE 1) * DecValue(body, k))

\* process.env.MIN_AMOUNT_DEFAULT: unset, or a string
MinAmountDefaults ==
    {<< >>, <<"2", "5", "6">>, <<"1", "0">>, <<"0">>, <<"-", "5">>, <<"a", "b", "c">>}

\* parseInt(process.env.MIN_AMOUNT_DEFAULT || '256', 10)
DEFAULT_MIN ==
    parseInt10(IF MIN_AMOUNT_DEFAULT # << >> THEN MIN_AMOUNT_DEFAULT
               ELSE <<"2", "5", "6">>)

\* JavaScript values of args.minAmount; a number is num / den
JsUndefined == [type |-> "undefined"]
JsNumber(num, den) == [type |-> "number", finite |-> TRUE, num |-> num, den |-> den]
JsNaN == [type |-> "number", finite |-> FALSE]
JsString == [type |-> "string"]

MinAmountArgs ==
    {JsUndefined, JsNaN, JsString, JsNumber(0, 1), JsNumber(1, 2), JsNumber(5, 2),
     JsNumber(0 - 3, 1), JsNumber(5, 1), JsNumber(300, 1)}

NumberIsFinite(v) == v.type = "number" /\ v.finite

MathFloor(v) == v.num \div v.den

MathMax(a, b) == IF a >= b THEN a ELSE b

\* Number.isFinite(minAmountArg) ? Math.max(1, Math.floor(minAmountArg)) : DEFAULT_MIN
Threshold(minAmountArg) ==
    IF NumberIsFinite(minAmountArg) THEN Num(MathMax(1, MathFloor(minAmountArg)))
    ELSE DEFAULT_MIN

EncodedTokens == {"", "cashuAtoken"}

\* data.totalAmount of an ok response
TotalAmounts == {JsUndefined} \cup {JsNumber(n, 1) : n \in {0, 1, 2, 5, 10, 255, 256, 300}}

\* how the fetch of the redeem request ends
FetchOutcomes ==
    {[kind |-> "network"], [kind |-> "timeout"], [kind |-> "notOk"],
     [kind |-> "invalidJson"]}
        \cup {[kind |-> "ok", totalAmount |-> t] : t \in TotalAmounts}

\* Number(data?.totalAmount || 0)
AmountOf(totalAmount) ==
    IF totalAmount.type = "undefined" \/ totalAmount.num = 0 THEN Num(0)
    ELSE Num(totalAmount.num)

\* a >= b on JavaScript numbers: false when either is NaN
GreaterOrEqual(a, b) == ~a.nan /\ ~b.nan /\ a.val >= b.val

CashuInit ==
    /\ PubInit
    /\ DigestIdle
    /\ MinerIdle
    /\ ConfigIdle
    /\ ServerIdle
    /\ MIN_AMOUNT_DEFAULT \in MinAmountDefaults
    /\ cashu = NoCashuCall

\* the handler up to the await of fetch: the argument checks and the threshold
CashuCall(encodedToken, minAmountArg) ==
    /\ cashu.pc = "idle"
    /\ cashu' = IF encodedToken = ""
                THEN [cashu EXCEPT !.pc = "threw", !.minAmount = minAmountArg,
                                   !.reason = "encodedToken is required and must be a string"]
                ELSE [cashu EXCEPT !.pc = "fetching", !.encodedToken = encodedToken,
                                   !.minAmount = minAmountArg,
                                   !.threshold = Threshold(minAmountArg)]
    /\ UNCHANGED <<pubVars, digestVars, minerVars, configVars, serverVars,
                   MIN_AMOUNT_DEFAULT>>

\* the fetch settles and the handler runs to its return
CashuSettle(res) ==
    /\ cashu.pc = "fetching"
    /\ cashu' =
         IF res.kind \in {"network", "timeout", "notOk", "invalidJson"}
         THEN [cashu EXCEPT !.pc = "returned", !.fetched = res,
                            !.decision = "ACCESS_DENIED", !.amount = Num(0),
                            !.reason = "nctool_error"]
         ELSE LET amount == AmountOf(res.totalAmount)
              IN  IF GreaterOrEqual(amount, cashu.threshold)
                  THEN [cashu EXCEPT !.pc = "returned", !.fetched = res,
                                     !.decision = "ACCESS_GRANTED",
                                     !.amount = amount, !.reason = "redeemed ok"]
                  ELSE [cashu EXCEPT !.pc = "returned", !.fetched = res,
                                     !.decision = "ACCESS_DENIED",
                                     !.amount = amount, !.reason = "below min"]
    /\ UNCHANGED <<pubVars, digestVars, minerVars, configVars, serverVars,
                   MIN_AMOUNT_DEFAULT>>

CashuNext ==
    \/ \E encodedToken \in EncodedTokens, minAmountArg \in MinAmountArgs :
          CashuCall(encodedToken, minAmountArg)
    \/ \E res \in FetchOutcomes : CashuSettle(res)

CashuSpec == CashuInit /\ [][CashuNext]_vars

(***************************************************************************)
(* Vocabulary of the properties.                                           *)
(***************************************************************************)
InSteps(x) == \E i \in DOMAIN steps : steps[i] = x

\* mineEventPow returned normally / threw
MineReturned == InSteps("mine")
MineThrew == InSteps("minefail")

\* relayPool.publish was called
Dispatched == sent # << >>

AllSettled == \A r \in Relays : relayState[r] \in {"ok", "fail"}
Accepted == {r \in Relays : relayState[r] = "ok"}
Failed == {r \in Relays : relayState[r] = "fail"}

NonceTagCount(tags) == Cardinality({i \in DOMAIN tags : tags[i][1] = "nonce"})

\* position of the last occurrence of a step (0 when absent)
LastStep(x) ==
    IF InSteps(x)
    THEN CHOOSE i \in DOMAIN steps :
             steps[i] = x /\ \A j \in DOMAIN steps : steps[j] = x => j <= i
    ELSE 0

(***************************************************************************)
(* C1.  Every record handed to relayPool.publish has an id equal to the    *)
(* hash of its own (pubkey, created_at, kind, tags, content) and a         *)
(* signature produced over that id, in the summary, rap and roast          *)
(* operations and for every difficulty.  Fails for roast after a           *)
(* successful mining: the mined copy keeps the signature of the event      *)
(* signed before the nonce tag was added (pow.util.ts:1386, 1399).         *)
(***************************************************************************)
C1_PublishedRecordSignedOverOwnHash ==
    \A i \in DOMAIN sent : SigValid(sent[i])

(***************************************************************************)
(* C2.  When all relays have answered, at least one accepted and at least  *)
(* one failed, the returned result has published = true and carries the    *)
(* failure of every failed relay.  Fails: Promise.all reports one          *)
(* rejection only, and roast turns it into success = false.                *)
(***************************************************************************)
C2_PartialFailureIsSuccessWithWarnings ==
    (result.returned /\ Dispatched /\ AllSettled /\ Accepted # {} /\ Failed # {})
        => (result.success /\ result.error.relays = Failed)

(***************************************************************************)
(* C3.  When every relay failed, the returned result has published = false *)
(* and carries the failure of every relay; a dispatch reports              *)
(* published = false only then.  Fails: summary and rap report success on  *)
(* any rejection, roast reports failure on a partial one.                  *)
(***************************************************************************)
C3_TotalFailureIsFailureWithDetails ==
    (result.returned /\ Dispatched /\ AllSettled)
        => /\ (Accepted = {} => (~result.success /\ result.error.relays = Relays))
           /\ (~result.success => Accepted = {})

(***************************************************************************)
(* C4.  The steps of an invocation are ordered draft, (mining when D > 0), *)
(* sign, publish: the last signing comes after mining has finished and     *)
(* before publish, and the record published has the tags of the last       *)
(* signing.  Fails for roast, which signs, mines and publishes the mined   *)
(* copy without signing again.                                             *)
(***************************************************************************)
C4_SignAfterMiningBeforePublish ==
    InSteps("publish") =>
        /\ steps[1] = "draft"
        /\ LastStep("sign") > 0
        /\ LastStep("sign") < LastStep("publish")
        /\ powDifficulty > 0 =>
               /\ MineReturned \/ MineThrew
               /\ LastStep("mine") < LastStep("sign")
               /\ LastStep("minefail") < LastStep("sign")
        /\ \A i \in DOMAIN sent : sent[i].tags = signedEvent.tags

(***************************************************************************)
(* C5.  When mineEventPow returns for difficulty D, the returned event's   *)
(* id is the hash of its own fields, nonce tag included, and has at least  *)
(* D leading zero bits (D = 8: two zero hex digits; D = 10: two zero hex   *)
(* digits and a third digit in 0..3); the only other way mineEventPow      *)
(* ends is the timeout error.                                              *)
(***************************************************************************)
C5_MinedIdMeetsDifficulty ==
    /\ MineReturned =>
          /\ mined.id = getEventHash(mined)
          /\ NonceTagCount(mined.tags) = 1
          /\ LeadingZeroBits(mined.id) >= powDifficulty
          /\ powDifficulty = 8 => (mined.id[1] = "0" /\ mined.id[2] = "0")
          /\ powDifficulty = 10 =>
                 /\ mined.id[1] = "0" /\ mined.id[2] = "0"
                 /\ parseInt16(mined.id[3]).val \in 0..3
    /\ (powDifficulty > 0 /\ pc \in {"resign", "ready", "publishing", "done", "responded"}
            /\ InSteps("sign")) =>
          /\ MineReturned # MineThrew
          /\ MineThrew => mineError = MiningTimeoutError
          /\ MineReturned => mineError = NoError

C5_Witness == MineReturned /\ powDifficulty = 10

(***************************************************************************)
(* C6.  For a digest h and 0 <= D <= 4 * Len(h), hashMatchesDifficulty(h,  *)
(* D) is true exactly when the big-endian bit string of h starts with D    *)
(* zero bits; when D is not a multiple of 4 and the first D div 4 digits   *)
(* are zero, it is decided by the top D mod 4 bits of the next digit.      *)
(***************************************************************************)
C6_MatchesIffLeadingZeroBits ==
    (matches # << >> /\ difficulty <= 4 * Len(hash)) =>
        /\ matches[1] <=> (LeadingZeroBits(hash) >= difficulty)
        /\ (difficulty % 4 # 0 /\ \A i \in 1..(difficulty \div 4) : hash[i] = "0") =>
               (matches[1] <=>
                    \A b \in 1..(difficulty % 4) :
                        NibbleBits(parseInt16(hash[(difficulty \div 4) + 1]).val)[b] = 0)

C6_Witness ==
    /\ matches = <<TRUE>>
    /\ difficulty = 5
    /\ hash = <<"0", "7">>

(***************************************************************************)
(* C7.  After every mining iteration, and in the event mineEventPow        *)
(* returns, the tags are the input event's tags, in order, followed by one *)
(* entry ["nonce", nonce, D] for the nonce of that iteration: nonce tags   *)
(* are replaced, not accumulated.                                          *)
(***************************************************************************)
C7_TagsAreInputPlusOneNonce ==
    /\ (pc = "mining" /\ nonce > 0) =>
          /\ mined.tags = Append(eventTemplate.tags,
                 <<"nonce", toString(nonce - 1), toString(powDifficulty)>>)
          /\ NonceTagCount(mined.tags) = 1
    /\ MineReturned =>
          /\ mined.tags = Append(eventTemplate.tags,
                 <<"nonce", toString(nonce), toString(powDifficulty)>>)
          /\ NonceTagCount(mined.tags) = 1

C7_Witness == pc = "mining" /\ nonce >= 3 /\ Len(mined.tags) = Len(eventTemplate.tags) + 1

(***************************************************************************)
(* C8.  With D = 0 mineEventPow is never invoked, the published record has *)
(* no nonce tag and is exactly the result of the first signing.            *)
(***************************************************************************)
C8_NoPowNoNonce ==
    powDifficulty = 0 =>
        /\ pc \notin {"mineStart", "mining", "resign"}
        /\ ~MineReturned /\ ~MineThrew
        /\ mined = NoEvent
        /\ \A i \in DOMAIN sent :
               /\ sent[i] = firstSigned
               /\ NonceTagCount(sent[i].tags) = 0
        /\ (result.returned /\ Dispatched /\ result.success) =>
               result.eventId = firstSigned.id

C8_Witness ==
    /\ powDifficulty = 0
    /\ Dispatched
    /\ result.returned
    /\ result.success

(***************************************************************************)
(* C9.  While the wall clock keeps advancing every call of mineEventPow    *)
(* ends; it throws only once more than 120000 ms have elapsed; for a       *)
(* difficulty no digest meets it ends with the timeout error.              *)
(***************************************************************************)
C9_MiningTerminates ==
    /\ (pc = "mining") ~> (pc # "mining")
    /\ (pc = "mining" /\ powDifficulty = UnreachableDifficulty)
           ~> (mineError = MiningTimeoutError)
    /\ [][mineError' # mineError => elapsed > MINING_TIMEOUT_MS]_vars

C9_Witness ==
    /\ powDifficulty = UnreachableDifficulty
    /\ mineError = MiningTimeoutError
    /\ pc # "mining"

(***************************************************************************)
(* C10 as stated.  When mining times out inside a publishing operation the *)
(* returned result carries the mining error and is never a clean success   *)
(* (published = true and no error).  Fails for summary and rap, which      *)
(* catch the error and publish the event signed before mining.             *)
(***************************************************************************)
C10_TimeoutReachesCaller ==
    (MineThrew /\ result.returned) =>
        /\ result.error = MiningTimeoutError
        /\ ~(result.success /\ result.error = NoError)

(***************************************************************************)
(* C10 amended.  mineEventPow throws the timeout error to the publishing   *)
(* operation.  Roast returns it to its caller: success = false, empty      *)
(* event id, the mining error, nothing published.  Summary and rap catch   *)
(* it and publish the record signed before mining: their result reports    *)
(* that record's id and does not carry the mining error.                   *)
(***************************************************************************)
C10_TimeoutPropagationByOperation ==
    MineThrew =>
        /\ mineError = MiningTimeoutError
        /\ op = "roast" =>
               /\ ~Dispatched
               /\ result = [success |-> FALSE, eventId |-> << >>,
                            error |-> MiningTimeoutError, returned |-> TRUE]
        /\ op # "roast" =>
               /\ signedEvent = firstSigned
               /\ Dispatched => sent = <<firstSigned>>
               /\ result.returned =>
                      /\ result.success
                      /\ result.eventId = firstSigned.id
                      /\ result.error # MiningTimeoutError

C10_Witness ==
    /\ MineThrew
    /\ op = "summary"
    /\ result.returned
    /\ result.error = NoError

(***************************************************************************)
(* C11.  When mining is aborted by the timeout, the draft in progress is   *)
(* discarded and nothing carrying a nonce tag is signed or published: the  *)
(* signed record is still the record of the first signing, and any record  *)
(* published afterwards is exactly that record, with its original tags,    *)
(* id and signature.                                                       *)
(***************************************************************************)
C11_AbortedMiningPublishesOriginal ==
    /\ pc = "mining" => (signedEvent = firstSigned /\ ~Dispatched)
    /\ MineThrew =>
          /\ mined = NoEvent
          /\ signedEvent = firstSigned
          /\ NonceTagCount(signedEvent.tags) = 0
          /\ signedEvent.tags = eventTemplate.tags
          /\ \A i \in DOMAIN sent :
                 /\ sent[i] = firstSigned
                 /\ NonceTagCount(sent[i].tags) = 0
                 /\ SigValid(sent[i])

C11_Witness ==
    /\ MineThrew
    /\ Dispatched
    /\ op = "rap"
    /\ sent[1].tags = eventTemplate.tags

(***************************************************************************)
(* C12.  A publishing operation returns its result only when every relay   *)
(* attempt has ended.  Fails: relayPool.publish joins the attempts with    *)
(* Promise.all, which rejects at the first rejection while the other       *)
(* attempts are still pending, and the operation returns from its catch.   *)
(***************************************************************************)
C12_ReturnsAfterAllAttempts ==
    (result.returned /\ Dispatched) => AllSettled

(***************************************************************************)
(* C13.  An invocation calls relayPool.publish at most once, and exactly   *)
(* once when signing succeeded and, for roast, mining did not fail; a      *)
(* failed publish is not retried.                                          *)
(***************************************************************************)
C13_PublishAtMostOnce ==
    /\ Len(sent) <= 1
    /\ Cardinality({i \in DOMAIN steps : steps[i] = "publish"}) = Len(sent)
    /\ result.returned =>
          (Len(sent) = 1 <=> (InSteps("sign") /\ ~(op = "roast" /\ MineThrew)))

C13_Witness ==
    /\ result.returned
    /\ Len(sent) = 1
    /\ rejection # << >>
    /\ AllSettled

(***************************************************************************)
(* C14.  The record handed to relayPool.publish is not changed by the      *)
(* dispatch, whatever the relays answer, and a non-empty event id in the   *)
(* result is the id of that record.                                        *)
(***************************************************************************)
C14_DispatchKeepsRecord ==
    Dispatched =>
        /\ FinalEvent = sent[1]
        /\ (result.returned /\ result.eventId # << >>) =>
               result.eventId = sent[1].id

C14_Witness ==
    /\ Dispatched
    /\ MineReturned
    /\ result.returned
    /\ result.eventId # << >>
    /\ Failed # {}

(***************************************************************************)
(* C16.  When the signer cannot be created from the key, the operation     *)
(* returns success = false, an empty event id and the error; nothing is    *)
(* signed and relayPool.publish is not called.                             *)
(***************************************************************************)
C16_SignerFailureSurfaced ==
    (privateKeyHex = MalformedKey /\ pc # "idle") =>
        /\ result = [success |-> FALSE, eventId |-> << >>,
                     error |-> SignerError, returned |-> TRUE]
        /\ ~Dispatched
        /\ ~InSteps("sign")
        /\ pc \in {"done", "responded"}

C16_Witness ==
    /\ privateKeyHex = MalformedKey
    /\ result.returned
    /\ op = "roast"

(***************************************************************************)
(* C17.  When some relays accepted and some failed, the answer of the tool *)
(* handler reports the publication as successful and carries a caveat      *)
(* about the failing relays.  Fails: the published branch of the handler   *)
(* never shows result.error, and roast answers with a publish failure.     *)
(***************************************************************************)
C17_PartialSuccessAnsweredWithCaveat ==
    (pc = "responded" /\ Dispatched /\ AllSettled /\ Accepted # {} /\ Failed # {})
        => /\ response.kind = "published"
           /\ response.caveat # NoError

(***************************************************************************)
(* C15.  A configured SERVER_PRIVATE_KEY, CRAIG_DAVID or ROAST_PRIV that   *)
(* is not exactly 64 hex characters makes the server exit at start-up, so  *)
(* every key a tool invocation hands to a signing call is exactly 64 hex   *)
(* characters.  Fails: CRAIG_DAVID and ROAST_PRIV are tested after trim()  *)
(* but used as configured, so 64 hex characters followed by white space    *)
(* pass start-up and reach the signer.                                     *)
(***************************************************************************)
C15_MalformedKeyRejectedAtStartup ==
    /\ startup = "running" =>
          \A k \in {env.SERVER_PRIVATE_KEY, env.CRAIG_DAVID, env.ROAST_PRIV} :
              k # << >> => TestKeyRegex(k)
    /\ \A c \in signingCalls : TestKeyRegex(c.key)

\* the record an invocation publishes when it runs alone: the first signing
\* when no PoW is requested or mining timed out, else the event of the
\* first nonce that meets the difficulty, signed again by summary and rap
PublishedAlone(tool, text, d, threw) ==
    LET first == finalizeEvent(TemplateOf(tool, text), ServerKey)
        m == mineEventPow(first, d, FALSE).mined
    IN  IF ~PowRequested(d) \/ threw THEN first
        ELSE IF ToolOp(tool) = "roast" THEN m
        ELSE finalizeEvent([kind |-> m.kind, created_at |-> m.created_at,
                            tags |-> m.tags, content |-> m.content,
                            pubkey |-> m.pubkey], ServerKey)

(***************************************************************************)
(* C18.  With two tool invocations interleaved in any way, the record each *)
(* one hands to relayPool.publish and the result it returns are those of   *)
(* the invocation running alone on the same inputs with the same mining    *)
(* and relay outcomes.                                                     *)
(***************************************************************************)
C18_InvocationsIsolated ==
    \A i \in Invocations :
        /\ inv[i].pc = "publishing" =>
               inv[i].published =
                   PublishedAlone(inv[i].tool, inv[i].text, POW_DIFFICULTY,
                                  inv[i].threw)
        /\ (inv[i].pc = "responded" /\ inv[i].published # NoEvent) =>
               /\ inv[i].published =
                      PublishedAlone(inv[i].tool, inv[i].text, POW_DIFFICULTY,
                                     inv[i].threw)
               /\ inv[i].result =
                      PublishResult(ToolOp(inv[i].tool),
                          PublishedAlone(inv[i].tool, inv[i].text,
                                         POW_DIFFICULTY, inv[i].threw),
                          inv[i].rejection)
        /\ (inv[i].pc = "responded" /\ inv[i].published = NoEvent) =>
               \/ /\ ToolOp(inv[i].tool) = "roast"
                  /\ inv[i].threw
                  /\ inv[i].result = Failure(MiningTimeoutError)
               \/ /\ inv[i].signedEvent = NoEvent
                  /\ inv[i].summaryResult = GenerationFailed(GenerationError)

C18_Witness ==
    /\ \A i \in Invocations :
          /\ inv[i].pc = "responded"
          /\ ~inv[i].threw
          /\ NonceTagCount(inv[i].published.tags) = 1
    /\ \E i, j \in Invocations : inv[i].tool = "summarise" /\ inv[j].tool = "roastNpub"
    /\ \A i, j \in Invocations : i # j => inv[i].published # inv[j].published

(***************************************************************************)
(* C19.  While an invocation is inside mineEventPow the other invocation   *)
(* and the heartbeat timers can take their next step.  Fails: the mining   *)
(* loop is synchronous, nothing else runs until it returns or throws.      *)
(***************************************************************************)
C19_MiningDoesNotBlock ==
    \A i \in Invocations :
        inv[i].pc = "mining" =>
            /\ HeartbeatDue(i) => ENABLED (\E d \in BOOLEAN : Heartbeat(i, d))
            /\ \A j \in Invocations \ {i} :
                   /\ inv[j].pc = "generating" => ENABLED Generated(j)
                   /\ inv[j].pc = "publishing" =>
                          ENABLED PublishSettle(j, << >>, TRUE)
                   /\ HeartbeatDue(j) =>
                          ENABLED (\E d \in BOOLEAN : Heartbeat(j, d))

(***************************************************************************)
(* C20.  Progress reporting does not change what a tool call returns or    *)
(* publishes: two invocations with the same tool, text, generation, mining *)
(* and relay outcome return the same response and publish the same record, *)
(* with or without a progress token and whether or not a notification send *)
(* failed; the response is the one built from the publish result.          *)
(***************************************************************************)
C20_ProgressIsAdvisory ==
    /\ \A i \in Invocations :
          inv[i].pc = "responded" =>
              inv[i].response =
                  ToolResponse(IF inv[i].signedEvent = NoEvent
                               THEN GenerationFailed(GenerationError)
                               ELSE createAndPublish(inv[i].text, inv[i].result))
    /\ \A i, j \in Invocations :
          (/\ inv[i].pc = "responded" /\ inv[j].pc = "responded"
           /\ inv[i].tool = inv[j].tool /\ inv[i].text = inv[j].text
           /\ (inv[i].signedEvent = NoEvent) = (inv[j].signedEvent = NoEvent)
           /\ inv[i].threw = inv[j].threw
           /\ inv[i].rejection = inv[j].rejection)
              => /\ inv[i].response = inv[j].response
                 /\ inv[i].published = inv[j].published

C20_Witness ==
    \E i, j \in Invocations :
        /\ inv[i].pc = "responded" /\ inv[j].pc = "responded"
        /\ inv[i].tool = "summarise" /\ inv[j].tool = "summarise"
        /\ inv[i].text = inv[j].text
        /\ inv[i].rejection = inv[j].rejection
        /\ inv[i].canProgress /\ ~inv[j].canProgress
        /\ "swallowed" \in inv[i].notes
        /\ inv[i].beats > 0
        /\ inv[i].response.kind = "published"

\* the five hashed fields of an event, without id and sig
HashedFields(evt) ==
    [pubkey |-> evt.pubkey, created_at |-> evt.created_at, kind |-> evt.kind,
     tags |-> evt.tags, content |-> evt.content]

\* a tag sequence with its first two tags exchanged
SwapFirstTwo(tags) ==
    IF Len(tags) < 2 THEN tags
    ELSE <<tags[2], tags[1]>> \o SubSeq(tags, 3, Len(tags))

(***************************************************************************)
(* C21.  Mining and re-signing leave pubkey, created_at, kind and content  *)
(* alone: in the mined copy, in the signed event and in every record       *)
(* handed to relayPool.publish they are those of the draft, for every      *)
(* difficulty and whether mining returned or timed out.                    *)
(***************************************************************************)
C21_MiningKeepsDraftFields ==
    LET same(evt) ==
            /\ evt.pubkey = eventTemplate.pubkey
            /\ evt.created_at = eventTemplate.created_at
            /\ evt.kind = eventTemplate.kind
            /\ evt.content = eventTemplate.content
    IN  /\ signedEvent # NoEvent => same(signedEvent)
        /\ mined # NoEvent => same(mined)
        /\ \A i \in DOMAIN sent : same(sent[i])

C21_Witness ==
    /\ Dispatched
    /\ MineReturned
    /\ op = "summary"
    /\ sent[1].tags # eventTemplate.tags
    /\ sent[1].content = eventTemplate.content

C24_ReturnsLeastNonce ==
    /\ [](\/ ~(MineReturned /\ pc \in {"resign", "ready"})
          \/ /\ nonce \in Hits(firstSigned, powDifficulty)
             /\ \A k \in Hits(firstSigned, powDifficulty) : nonce <= k
             /\ mined.tags[Len(mined.tags)] = NonceTag(nonce, powDifficulty))
    /\ [][/\ (pc = "mineStart" /\ pc' = "mining") => nonce' = 0
          /\ (pc = "mining" /\ pc' = "mining" /\ nonce' # nonce) =>
                 nonce' = nonce + 1]_vars

C24_Witness ==
    /\ MineReturned
    /\ pc = "resign"
    /\ nonce >= 3

(***************************************************************************)
(* C25.  calculateHashDifficulty(h) is the number of leading zero bits of  *)
(* the digest h, 4 * Len(h) when h is all zeros, and for 0 <= D <=         *)
(* 4 * Len(h) hashMatchesDifficulty(h, D) holds exactly when               *)
(* D <= calculateHashDifficulty(h).                                        *)
(***************************************************************************)
C25_CalculatedDifficultyAgrees ==
    calculated # << >> =>
        /\ calculated[1] = LeadingZeroBits(hash)
        /\ (\A i \in DOMAIN hash : hash[i] = "0") => calculated[1] = 4 * Len(hash)
        /\ (matches # << >> /\ difficulty <= 4 * Len(hash)) =>
               (matches[1] <=> difficulty <= calculated[1])

C25_Witness ==
    /\ calculated = <<LeadingZeroBits(<<"0", "2">>)>>
    /\ hash = <<"0", "2">>
    /\ matches = <<FALSE>>
    /\ difficulty = 4 * Len(hash) - 1

(***************************************************************************)
(* C26.  hashMatchesDifficulty(h, D) is false whenever D is greater than   *)
(* 4 * Len(h).  Fails for an all-zero digest and D within three bits past  *)
(* its length: hash[Len(h)] is undefined, parseInt gives NaN and           *)
(* NaN >> k is 0.                                                          *)
(***************************************************************************)
C26_UnreachableDifficultyNeverMet ==
    (matches # << >> /\ difficulty > 4 * Len(hash)) => matches[1] = FALSE

(***************************************************************************)
(* C23.  cashu_access returns ACCESS_GRANTED exactly when the redeem       *)
(* request got an ok response whose totalAmount is at least the threshold  *)
(* (max(1, floor(minAmount)) for a finite number, the configured default   *)
(* otherwise); a non-ok response, a network error or timeout, a missing    *)
(* amount or an amount below the threshold returns ACCESS_DENIED, with     *)
(* amount 0 on the error paths.  Fails when MIN_AMOUNT_DEFAULT is "0" (or  *)
(* negative) and minAmount is not given: the default is not clamped to 1,  *)
(* and an ok response without totalAmount is granted with amount 0.        *)
(***************************************************************************)
C23_GrantedIffRedeemedAtLeastThreshold ==
    cashu.pc = "returned" =>
        LET res == cashu.fetched
            specThreshold == IF NumberIsFinite(cashu.minAmount)
                             THEN Num(MathMax(1, MathFloor(cashu.minAmount)))
                             ELSE DEFAULT_MIN
            redeemed == /\ res.kind = "ok"
                        /\ res.totalAmount.type = "number"
                        /\ GreaterOrEqual(Num(res.totalAmount.num), specThreshold)
        IN  /\ cashu.decision = (IF redeemed THEN "ACCESS_GRANTED" ELSE "ACCESS_DENIED")
            /\ res.kind # "ok" => cashu.amount = Num(0)

\* with the shipped default of 256 (MIN_AMOUNT_DEFAULT unset) the statement holds
C23_HoldsUnderShippedDefault ==
    MIN_AMOUNT_DEFAULT = << >> => C23_GrantedIffRedeemedAtLeastThreshold

C28_GenerationFailureReturnsError ==
    /\ InSteps("generatefail") =>
          /\ steps = <<"generatefail">>
          /\ signedEvent = NoEvent /\ firstSigned = NoEvent /\ mined = NoEvent
          /\ ~Dispatched /\ result = NoResult
          /\ summaryResult.returned
          /\ ~summaryResult.published
          /\ summaryResult.summary = ""
          /\ summaryResult.nostrEventId = << >>
          /\ summaryResult.error = GenerationError
          /\ response.kind = "publishFailed" /\ response.caveat = GenerationError
    /\ (InSteps("draft") \/ Dispatched \/ signedEvent # NoEvent) =>
          (~InSteps("generatefail") /\ summary \in Texts)

C28_Witness ==
    /\ InSteps("generatefail")
    /\ op = "roast"
    /\ pc = "responded"
    /\ summaryResult.returned

(***************************************************************************)
(* C29.  In a summarise or weekly_summary call that started a heartbeat    *)
(* timer the timer is cleared before the response is returned, whether     *)
(* generation or publishing succeeded or failed or the request was         *)
(* aborted; once the call has answered no heartbeat notification is sent.  *)
(***************************************************************************)
C29_HeartbeatStoppedBeforeResponse ==
    /\ [](\A i \in Invocations :
            /\ inv[i].pc = "responded" => inv[i].timer # "running"
            /\ inv[i].timer # "none" =>
                   (inv[i].tool \in {"summarise", "weekly_summary"} /\ inv[i].canProgress))
    /\ [][\A i \in Invocations :
            inv[i].pc = "responded" =>
                (inv'[i].log = inv[i].log /\ inv'[i].beats = inv[i].beats)]_vars

C29_Witness ==
    \E i \in Invocations :
        /\ inv[i].pc = "responded"
        /\ inv[i].tool = "weekly_summary"
        /\ inv[i].timer = "cleared"
        /\ inv[i].beats = 0
        /\ inv[i].summaryResult = GenerationFailed(GenerationError)

(***************************************************************************)
(* C30.  Within one tool call the progress values of the notifications     *)
(* sent, step and heartbeat notifications together, never decrease, and    *)
(* the last notification sent has progress equal to its total.  Fails: a   *)
(* heartbeat carries progress 0 and no total, and comes after the step     *)
(* notification with progress 1.                                           *)
(***************************************************************************)
C30_ProgressNeverDecreases ==
    \A i \in Invocations :
        LET log == inv[i].log
        IN  /\ \A k \in 1..(Len(log) - 1) : log[k].progress <= log[k + 1].progress
            /\ (inv[i].pc = "responded" /\ log # << >>) =>
                   log[Len(log)].total = <<log[Len(log)].progress>>

====
